---- MODULE Spec2Model ----
(***************************************************************************)
(* SocketClient (src/src/network/socket_client.py): one TCP client object  *)
(* used by a caller thread (the GUI thread) and by the receiver threads    *)
(* that connect() starts.  Threads interleave between any two accesses of  *)
(* the shared fields self.socket and self.running; no lock is used.        *)
(***************************************************************************)
EXTENDS Integers, Sequences, FiniteSets, TLC

\* ------------------------------------------------------------------ bounds
MaxCalls == 3       \* connect() and disconnect() calls the caller makes
MaxWireMsgs == 2    \* messages the peer sends in the framing specification

\* ------------------------------------------------------- program constants
FRAME == 1
TELEMETRY == 2
DETECTION == 3
SERVO_STATE == 4
COMMAND == 255
HeaderLen == 5

None == 0
Caller == 0
\* every connect() creates one socket and at most one receiver thread; a run has
\* one call besides the connect() for each connection (the disconnect(), or the
\* call that follows it), so the connections are half the calls, rounded up
MaxSockets == (MaxCalls + 1) \div 2
Socks == 1..MaxSockets
Threads == 0..MaxSockets

VARIABLES
    socket,     \* self.socket: None or a socket object
    running,    \* self.running
    sockState,  \* each socket object: "unused", "created", "open" (connected), "closed"
    peer,       \* the remote end of each socket: "up", "writing" (part of a message
                \* written), "closed" (FIN sent), "reset" (RST)
    wire,       \* bytes sent by the peer and not yet returned by recv()
    nsock,      \* socket objects created so far
    cpc,        \* where the caller thread is
    call,       \* the caller's current (or last) call and what it did
    loop,       \* each receiver thread: position and locals of _receive_loop/_recv_exact
    dpc,        \* where each thread is inside disconnect()
    events,     \* every signal emitted, in order
    tab,        \* ConnectionTab: _connected, and the notifications queued for it
    hist,       \* per connection: what happened to it (observation only)
    left        \* calls and peer messages still allowed (bounds the exploration)

vars == <<socket, running, sockState, peer, wire, nsock, cpc, call, loop, dpc,
          events, tab, hist, left>>

\* ------------------------------------------------------------ wire format
\* struct.pack("!BI", tag, n): one byte, then n as big-endian u32
Pack(tag, n) ==
    << tag, (n \div 16777216) % 256, (n \div 65536) % 256, (n \div 256) % 256, n % 256 >>

\* struct.unpack("!BI", header)
Unpack(h) ==
    [msg_type |-> h[1],
     payload_length |-> h[2] * 16777216 + h[3] * 65536 + h[4] * 256 + h[5]]

\* what the peer writes for one message
Encode(m) == Pack(m.tag, Len(m.payload)) \o m.payload

Take(s, n) == SubSeq(s, 1, n)
Drop(s, n) == SubSeq(s, n + 1, Len(s))
Min(a, b) == IF a < b THEN a ELSE b

\* cv2.imdecode returns an image only for a well-formed codestream; the model's
\* stand-in for one is the JPEG start-of-image marker FF D8.
DecodesAsImage(payload) == payload = <<255, 216>>

\* json.loads gives a dict the signal accepts only for a JSON object; "{}" is one.
DecodesAsJson(payload) == payload = <<123, 125>>

\* ---------------------------------------------------------------- signals
\* connection_tab.py l.220-227: the slot sets self._connected = connected
on_connection_changed(connected) == [tab EXCEPT !.connected = connected]

\* l.38: connection_changed is connected to the slot of a widget of the caller's
\* thread: an emit on that thread runs the slot at once, an emit on a receiver
\* thread queues the call for the caller's event loop
Notify(sig, arg, by) ==
    IF sig # "connection_changed" THEN tab
    ELSE IF by = Caller THEN on_connection_changed(arg)
    ELSE [tab EXCEPT !.pending = Append(@, arg)]

Emit(sig, arg, by) ==
    /\ events' = Append(events, [sig |-> sig, arg |-> arg, by |-> by])
    /\ tab' = Notify(sig, arg, by)

Count(sig, arg, by) ==
    Cardinality({i \in 1..Len(events) :
        /\ events[i].sig = sig
        /\ events[i].by = by
        /\ events[i].arg = arg})

CountSig(sig, by) ==
    Cardinality({i \in 1..Len(events) : events[i].sig = sig /\ events[i].by = by})

\* SocketClient.is_connected
is_connected == running /\ socket # None

\* ------------------------------------------------------------------- Init
\* call: the caller's call in progress, or the last one once it returned
\*   op, ret    "connect" or "disconnect"; "pending", or what it returned
\*   sock       the socket a connect() created
\*   from       how many signals had been emitted when the call began
\*   wasConn    is_connected() when the call began
\*   hit        a receiver thread ran l.79 or l.86 of disconnect() during a connect()
\*   conn, handle, run, closed   on return: is_connected(), self.socket,
\*              self.running, and whether the socket of the call is closed
\*   cmd, writes   the argument of a send_command(), and the sendall() calls it made
NoCall == [op |-> "none", sock |-> None, ret |-> "none", from |-> 0, wasConn |-> FALSE,
           hit |-> FALSE, conn |-> FALSE, handle |-> None, run |-> FALSE,
           closed |-> FALSE, cmd |-> "none", writes |-> 0]

IdleLoop == [pc |-> "unstarted", sock |-> None, phase |-> "hdr", data |-> <<>>,
             need |-> 0, msg_type |-> 0]

\* hist[s] is about connection s and about the receiver thread started for it:
\*   wasConn      is_connected() was true when the connect() that made s began
\*   established  connect() reached l.57 on this socket
\*   cause        the caller called disconnect() since, the peer closed it, or a
\*                recv() on it raised
\*   raisedRunning  a recv() of this thread raised while self.running was set
\*   sent, got    the messages the peer sent on s; those the thread dispatched
\*   partial      the bytes of a last, incomplete message the peer sent before closing
\*   out          what each sendall() on s wrote, in order
\*   split        a recv() of this thread returned fewer bytes than it was asked for
\*   held         the rest of a message the peer has written only a part of
\*   resumed      a recv() of this thread on its open connection timed out with a
\*                part of the read accumulated
NoHist == [wasConn |-> FALSE, established |-> FALSE, cause |-> FALSE, raisedRunning |-> FALSE,
           sent |-> <<>>, got |-> <<>>, partial |-> <<>>, out |-> <<>>, split |-> FALSE,
           held |-> <<>>, resumed |-> FALSE]

InitClient ==
    /\ socket = None
    /\ running = FALSE
    /\ sockState = [s \in Socks |-> "unused"]
    /\ peer = [s \in Socks |-> "up"]
    /\ wire = [s \in Socks |-> <<>>]
    /\ nsock = 0
    /\ cpc = "idle"
    /\ call = NoCall
    /\ loop = [k \in Socks |-> IdleLoop]
    /\ dpc = [t \in Threads |-> "out"]
    /\ events = <<>>
    /\ tab = [connected |-> FALSE, pending |-> <<>>]
    /\ hist = [s \in Socks |-> NoHist]

\* the messages the peer chooses from
WireTags == {FRAME, TELEMETRY, DETECTION}
WirePayloads == {<<>>, <<123>>, <<123, 125>>, <<255, 216>>}
\* one message per way the loop and the handlers can treat a message: an empty
\* payload, a payload the handler of its tag decodes, one it does not, and a tag
\* without a handler
WireMsgs ==
    {m \in [tag : WireTags, payload : WirePayloads] :
        \/ m.tag = FRAME /\ m.payload \in {<<>>, <<123>>, <<255, 216>>}
        \/ m.tag = TELEMETRY /\ m.payload \in {<<123>>, <<123, 125>>}
        \/ m.tag = DETECTION /\ m.payload = <<123>>}

\* tags the loop has no handler for (l.119-120): the three other members of
\* MessageType and a value that is none of them
OtherTags == {DETECTION, SERVO_STATE, COMMAND, 126}

\* messages of those tags, with and without a payload, and one message for each
\* handler to deliver after them
TagMsgs ==
    {[tag |-> g, payload |-> p] : g \in OtherTags, p \in {<<>>, <<123>>}}
        \cup {[tag |-> FRAME, payload |-> <<255, 216>>],
               [tag |-> TELEMETRY, payload |-> <<123, 125>>]}

Init ==
    /\ InitClient
    /\ left = [calls |-> MaxCalls, connects |-> MaxSockets,
               msgs |-> 0, menu |-> "none", chunked |-> FALSE]

\* ------------------------------------------------------ caller: connect()
Return(value) ==
    [call EXCEPT !.ret = value, !.conn = is_connected, !.handle = socket,
                 !.run = running,
                 !.closed = (call.sock # None /\ sockState[call.sock] = "closed")]

\* l.43-48: self.socket = socket.socket(...)
CallConnect ==
    /\ cpc = "idle"
    /\ left.calls > 0
    /\ nsock < left.connects
    /\ left' = [left EXCEPT !.calls = @ - 1]
    /\ nsock' = nsock + 1
    /\ sockState' = [sockState EXCEPT ![nsock + 1] = "created"]
    /\ socket' = nsock + 1
    /\ cpc' = "c_connect"
    /\ call' = [NoCall EXCEPT !.op = "connect", !.sock = nsock + 1, !.ret = "pending",
                               !.from = Len(events), !.wasConn = is_connected]
    /\ hist' = [hist EXCEPT ![nsock + 1].wasConn = is_connected]
    /\ UNCHANGED <<running, peer, wire, loop, dpc, events, tab>>

ConnectOutcomes == {"ok", "timeout", "refused", "error"}

ErrorText(outcome) ==
    CASE outcome = "timeout" -> "Connection timeout"
      [] outcome = "refused" -> "Connection refused - is Pi server running?"
      [] OTHER -> "Connection failed"

\* l.66-74: every except branch emits one error and returns False
ConnectFails(outcome) ==
    /\ Emit("error_occurred", ErrorText(outcome), Caller)
    /\ cpc' = "idle"
    /\ call' = Return("false")
    /\ UNCHANGED <<socket, running, sockState>>

\* l.49-53: self.socket.settimeout(5.0); self.socket.connect((host, port)).
\* self.socket is read again here: a receiver thread may have cleared or closed it.
ConnectStep ==
    /\ cpc = "c_connect"
    /\ \E outcome \in ConnectOutcomes :
         IF socket = None \/ sockState[socket] = "closed"
         THEN ConnectFails("error")
         ELSE IF outcome = "ok"
              THEN /\ sockState' = [sockState EXCEPT ![socket] = "open"]
                   /\ cpc' = "c_start"
                   /\ UNCHANGED <<socket, running, call, events, tab>>
              ELSE ConnectFails(outcome)
    /\ UNCHANGED <<peer, wire, nsock, loop, dpc, hist, left>>

\* (mutant) connect() that starts the thread without raising self.running
ConnectStartNoFlag ==
    /\ cpc = "c_start"
    /\ running' = running
    /\ loop' = [loop EXCEPT ![call.sock].pc = "top"]
    /\ hist' = [hist EXCEPT ![call.sock].established = TRUE]
    /\ cpc' = "c_emit"
    /\ UNCHANGED <<socket, sockState, peer, wire, nsock, call, dpc, events, tab, left>>

\* l.57-61: self.running = True; the receiver thread is created and started
ConnectStart ==
    /\ cpc = "c_start"
    /\ running' = TRUE
    /\ loop' = [loop EXCEPT ![call.sock].pc = "top"]
    /\ hist' = [hist EXCEPT ![call.sock].established = TRUE]
    /\ cpc' = "c_emit"
    /\ UNCHANGED <<socket, sockState, peer, wire, nsock, call, dpc, events, tab, left>>

\* l.63-64: self.connection_changed.emit(True); return True
ConnectEmit ==
    /\ cpc = "c_emit"
    /\ Emit("connection_changed", TRUE, Caller)
    /\ cpc' = "idle"
    /\ call' = Return("true")
    /\ UNCHANGED <<socket, running, sockState, peer, wire, nsock, loop, dpc, hist, left>>

\* --------------------------------------------------- caller: send_command()
\* the command dicts the caller passes: {}, {"a": 1}, and one json cannot serialise
Commands == {"empty", "a1", "unserialisable"}

\* l.195: json.dumps(command).encode("utf-8"); <<>> stands for the TypeError
Dumps(c) ==
    CASE c = "empty" -> <<123, 125>>
      [] c = "a1" -> <<123, 34, 97, 34, 58, 32, 49, 125>>
      [] OTHER -> <<>>

\* (mutant) the length packed in the machine's byte order (little-endian)
CommandBytesNative(c) ==
    << COMMAND, Len(Dumps(c)) % 256, (Len(Dumps(c)) \div 256) % 256,
       (Len(Dumps(c)) \div 65536) % 256, (Len(Dumps(c)) \div 16777216) % 256 >>
        \o Dumps(c)

\* l.196-197: header + cmd_bytes
CommandBytes(c) == Pack(COMMAND, Len(Dumps(c))) \o Dumps(c)

\* (mutant) send_command() that goes on to the write without testing is_connected()
CallSendUnchecked ==
    /\ cpc = "idle"
    /\ left.calls > 0
    /\ left' = [left EXCEPT !.calls = @ - 1]
    /\ \E c \in Commands :
         call' = [NoCall EXCEPT !.op = "send", !.ret = "pending", !.cmd = c,
                                !.from = Len(events), !.wasConn = is_connected]
    /\ cpc' = "s_send"
    /\ UNCHANGED <<socket, running, sockState, peer, wire, nsock, loop, dpc, hist, events, tab>>

\* l.183-192: if not self.is_connected(): emit "Not connected" and return
CallSend ==
    /\ cpc = "idle"
    /\ left.calls > 0
    /\ left' = [left EXCEPT !.calls = @ - 1]
    /\ \E c \in Commands :
         LET entered == [NoCall EXCEPT !.op = "send", !.ret = "pending", !.cmd = c,
                                       !.from = Len(events), !.wasConn = is_connected]
         IN IF ~is_connected
            THEN /\ Emit("error_occurred", "Not connected", Caller)
                 /\ cpc' = "idle"
                 /\ call' = [entered EXCEPT !.ret = "returned", !.conn = is_connected,
                                            !.handle = socket, !.run = running]
            ELSE /\ cpc' = "s_send"
                 /\ call' = entered
                 /\ UNCHANGED <<events, tab>>
    /\ UNCHANGED <<socket, running, sockState, peer, wire, nsock, loop, dpc, hist>>

\* (mutant) a failed send tears the connection down
SendFailsAndDrops ==
    /\ Emit("error_occurred", "Send failed", Caller)
    /\ cpc' = "idle"
    /\ running' = FALSE
    /\ socket' = None
    /\ UNCHANGED sockState

\* l.198-199: except Exception: emit "Send failed: ...", and the call returns
SendFails ==
    /\ Emit("error_occurred", "Send failed", Caller)
    /\ cpc' = "idle"
    /\ UNCHANGED <<socket, running, sockState>>

\* (mutant) send_command() with self.socket.sendall outside the try: without a
\* socket the AttributeError reaches the caller
SendStepUnguarded ==
    /\ cpc = "s_send"
    /\ LET c == call.cmd
           s == socket
       IN IF s = None
          THEN /\ cpc' = "idle"
               /\ call' = [call EXCEPT !.ret = "raised"]
               /\ UNCHANGED <<socket, running, sockState, events, tab, hist>>
          ELSE IF Dumps(c) = <<>>
          THEN /\ SendFails
               /\ call' = [call EXCEPT !.ret = "returned"]
               /\ hist' = hist
          ELSE /\ call' = [call EXCEPT !.ret = "returned", !.writes = @ + 1]
               /\ IF sockState[s] # "open" \/ peer[s] = "reset"
                  THEN SendFails /\ hist' = hist
                  ELSE \/ /\ hist' = [hist EXCEPT ![s].out = Append(@, CommandBytes(c))]
                          /\ cpc' = "idle"
                          /\ UNCHANGED <<socket, running, sockState, events, tab>>
                       \/ /\ SendFails /\ hist' = hist
    /\ UNCHANGED <<peer, wire, nsock, loop, dpc, left>>

\* l.194-197: the command is serialised and self.socket.sendall(...) called once.
\* self.socket is read again here.  A write that fails may have written a part.
SendStep ==
    /\ cpc = "s_send"
    /\ LET c == call.cmd
           s == socket
       IN IF Dumps(c) = <<>> \/ s = None
          THEN /\ SendFails
               /\ call' = [call EXCEPT !.ret = "returned"]
               /\ hist' = hist
          ELSE /\ call' = [call EXCEPT !.ret = "returned", !.writes = @ + 1]
               /\ IF sockState[s] # "open" \/ peer[s] = "reset"
                  THEN SendFails /\ hist' = hist
                  ELSE \/ /\ hist' = [hist EXCEPT ![s].out = Append(@, CommandBytes(c))]
                          /\ cpc' = "idle"
                          /\ UNCHANGED <<socket, running, sockState, events, tab>>
                       \/ /\ SendFails
                          /\ \E n \in {0, HeaderLen} :
                               hist' = [hist EXCEPT ![s].out =
                                          IF n = 0 THEN @
                                          ELSE Append(@, Take(CommandBytes(c), n))]
    /\ UNCHANGED <<peer, wire, nsock, loop, dpc, left>>

\* ----------------------------------------------------------- disconnect()
\* l.76-79, on the caller thread: self.running = False
CallDisconnect ==
    /\ cpc = "idle"
    /\ left.calls > 0
    /\ left' = [left EXCEPT !.calls = @ - 1]
    /\ running' = FALSE
    /\ cpc' = "disconnect"
    /\ dpc' = [dpc EXCEPT ![Caller] = "check"]
    /\ call' = [NoCall EXCEPT !.op = "disconnect", !.ret = "pending",
                               !.from = Len(events), !.wasConn = is_connected]
    /\ hist' = [s \in Socks |->
                 IF hist[s].established THEN [hist[s] EXCEPT !.cause = TRUE]
                 ELSE hist[s]]
    /\ UNCHANGED <<socket, sockState, peer, wire, nsock, loop, events, tab>>

\* (observation) a receiver thread undoes part of a connect() in progress
Hit == IF call.op = "connect" /\ call.ret = "pending" THEN [call EXCEPT !.hit = TRUE]
       ELSE call

\* l.126-128 then l.78-79, on a receiver thread: finally: self.disconnect()
LoopFinally(k) ==
    /\ loop[k].pc = "finally"
    /\ running' = FALSE
    /\ loop' = [loop EXCEPT ![k].pc = "disconnect"]
    /\ dpc' = [dpc EXCEPT ![k] = "check"]
    /\ call' = Hit
    /\ UNCHANGED <<socket, sockState, peer, wire, nsock, cpc, events, tab, hist, left>>

\* l.81: if self.socket:
DiscCheck(t) ==
    /\ dpc[t] = "check"
    /\ dpc' = [dpc EXCEPT ![t] = IF socket # None THEN "close" ELSE "emit"]
    /\ UNCHANGED <<socket, running, sockState, peer, wire, nsock, cpc, call, loop,
                   events, tab, hist, left>>

\* (mutant) self.socket.close() outside any try: without a socket the
\* AttributeError escapes and ends the disconnect() there
DiscCloseUnguarded(t) ==
    /\ dpc[t] = "close"
    /\ IF socket # None
       THEN /\ sockState' = [sockState EXCEPT ![socket] = "closed"]
            /\ wire' = [wire EXCEPT ![socket] = <<>>]
            /\ dpc' = [dpc EXCEPT ![t] = "clear"]
       ELSE /\ dpc' = [dpc EXCEPT ![t] = "raised"]
            /\ UNCHANGED <<sockState, wire>>
    /\ UNCHANGED <<socket, running, peer, nsock, cpc, call, loop, events, tab, hist, left>>

\* l.82-85: self.socket.close() inside try/except: self.socket is read again, and
\* a None there (AttributeError) is swallowed like any close-time error
DiscClose(t) ==
    /\ dpc[t] = "close"
    /\ IF socket # None
       THEN /\ sockState' = [sockState EXCEPT ![socket] = "closed"]
            /\ wire' = [wire EXCEPT ![socket] = <<>>]
       ELSE UNCHANGED <<sockState, wire>>
    /\ dpc' = [dpc EXCEPT ![t] = "clear"]
    /\ UNCHANGED <<socket, running, peer, nsock, cpc, call, loop, events, tab, hist, left>>

\* l.86: self.socket = None
DiscClear(t) ==
    /\ dpc[t] = "clear"
    /\ socket' = None
    /\ dpc' = [dpc EXCEPT ![t] = "emit"]
    /\ call' = Hit
    /\ UNCHANGED <<running, sockState, peer, wire, nsock, cpc, loop, events, tab, hist, left>>

\* (mutant) disconnect() that reports a state change only once per session
DiscEmitOnce(t) ==
    /\ dpc[t] = "emit"
    /\ IF \E i \in 1..Len(events) :
            /\ events[i].sig = "connection_changed"
            /\ events[i].arg = FALSE
            /\ \A j \in (i + 1)..Len(events) : events[j].sig # "connection_changed"
       THEN UNCHANGED <<events, tab>>
       ELSE Emit("connection_changed", FALSE, t)
    /\ dpc' = [dpc EXCEPT ![t] = "out"]
    /\ IF t = Caller
       THEN /\ cpc' = "idle"
            /\ call' = Return("returned")
            /\ loop' = loop
       ELSE /\ loop' = [loop EXCEPT ![t].pc = "done"]
            /\ UNCHANGED <<cpc, call>>
    /\ UNCHANGED <<socket, running, sockState, peer, wire, nsock, hist, left>>

\* (mutant) disconnect() that reports the state change only to its direct caller
DiscEmitCallerOnly(t) ==
    /\ dpc[t] = "emit"
    /\ IF t = Caller
       THEN /\ Emit("connection_changed", FALSE, t)
            /\ cpc' = "idle"
            /\ call' = Return("returned")
            /\ loop' = loop
       ELSE /\ UNCHANGED <<events, tab>>
            /\ loop' = [loop EXCEPT ![t].pc = "done"]
            /\ UNCHANGED <<cpc, call>>
    /\ dpc' = [dpc EXCEPT ![t] = "out"]
    /\ UNCHANGED <<socket, running, sockState, peer, wire, nsock, hist, left>>

\* l.88-89: self.connection_changed.emit(False), and disconnect() returns
DiscEmit(t) ==
    /\ dpc[t] = "emit"
    /\ Emit("connection_changed", FALSE, t)
    /\ dpc' = [dpc EXCEPT ![t] = "out"]
    /\ IF t = Caller
       THEN /\ cpc' = "idle"
            /\ call' = Return("returned")
            /\ loop' = loop
       ELSE /\ loop' = [loop EXCEPT ![t].pc = "done"]
            /\ UNCHANGED <<cpc, call>>
    /\ UNCHANGED <<socket, running, sockState, peer, wire, nsock, hist, left>>

\* ------------------------------------------------- receiver: _receive_loop
\* l.104, l.112 break, or l.100 false: the loop is left and its locals are dead
Break == [IdleLoop EXCEPT !.pc = "finally"]

\* l.143: the evaluation of self.socket.recv at the head of a read.  With no socket
\* (AttributeError, caught at l.149) _recv_exact returns b"" and the loop breaks.
Capture(l) ==
    IF socket = None
    THEN Break
    ELSE [l EXCEPT !.pc = "recv", !.sock = socket]

\* l.140-143: _recv_exact(num_bytes) up to its first recv; asked for no bytes it
\* returns b"" at once, which the loop takes for a closed connection (l.111-112)
recv_exact(l, phase, num_bytes) ==
    IF num_bytes = 0
    THEN Break
    ELSE Capture([l EXCEPT !.phase = phase, !.data = <<>>, !.need = num_bytes])

\* l.100-102: while self.running: header = self._recv_exact(5)
NextHeader(l) ==
    IF running
    THEN recv_exact([l EXCEPT !.msg_type = 0], "hdr", HeaderLen)
    ELSE Break

\* l.95-102: the thread starts and tests self.running for the first time
LoopTop(k) ==
    /\ loop[k].pc = "top"
    /\ loop' = [loop EXCEPT ![k] = NextHeader(loop[k])]
    /\ UNCHANGED <<socket, running, sockState, peer, wire, nsock, cpc, call, dpc,
                   events, tab, hist, left>>

\* l.103-112: a complete read: the header is unpacked and the payload read begins,
\* or the payload goes to the dispatch
Complete(l, data) ==
    IF l.phase = "hdr"
    THEN recv_exact([l EXCEPT !.msg_type = Unpack(data).msg_type],
                    "pay", Unpack(data).payload_length)
    ELSE [l EXCEPT !.pc = "dispatch", !.sock = None, !.data = data]

\* what one recv() on socket s can do: raise, time out, report the peer closed, or
\* return the next n bytes (any n from 1 to what is there and wanted)
Result(kind) == [kind |-> kind, n |-> 0]

RecvResults(s, want) ==
    IF sockState[s] = "closed" THEN {Result("raise"), Result("timeout")}
    ELSE IF sockState[s] # "open" \/ peer[s] = "reset" THEN {Result("raise")}
    ELSE IF wire[s] # <<>>
         THEN {[kind |-> "chunk", n |-> n] :
                  n \in (IF left.chunked THEN 1 ELSE Min(Len(wire[s]), want))
                        .. Min(Len(wire[s]), want)}
    ELSE IF peer[s] = "closed" THEN {Result("eof")}
    ELSE {Result("timeout")}

\* (mutant) a read cut short by the peer's close returns what it has so far
EofReturnsShort(l) ==
    IF l.phase = "pay" /\ l.data # <<>>
    THEN [l EXCEPT !.pc = "dispatch", !.sock = None]
    ELSE Break

\* (mutant) a read timeout taken for the end of the stream
TimeoutAsEof(l) == Break

\* l.144-145: if not chunk: return b"", whatever was accumulated; then l.103-104 or
\* l.111-112: break
Eof(l) == Break

\* l.147-148: except socket.timeout: continue, data kept; l.141-143 again
Timeout(l) == Capture(l)

\* (mutant) a payload read that takes the first chunk for the whole payload
ChunkPayloadOnce(l, data) ==
    IF Len(data) < l.need /\ l.phase = "hdr"
    THEN Capture([l EXCEPT !.data = data])
    ELSE Complete(l, data)

\* l.146 and l.141: data += chunk; while len(data) < num_bytes
Chunk(l, data) ==
    IF Len(data) < l.need
    THEN Capture([l EXCEPT !.data = data])
    ELSE Complete(l, data)

\* (mutant) an exception of recv() reported as a receive error, whatever self.running
RecvReturnReportsRaise(k) ==
    /\ loop[k].pc = "recv"
    /\ LET l == loop[k]
           s == l.sock
       IN \E r \in RecvResults(s, l.need - Len(l.data)) :
            IF r.kind = "raise"
            THEN /\ loop' = [loop EXCEPT ![k] = Break]
                 /\ hist' = [hist EXCEPT ![s].cause = TRUE,
                                         ![k].raisedRunning = @ \/ running]
                 /\ wire' = wire
                 /\ Emit("error_occurred", "Receive error", k)
            ELSE IF r.kind = "eof"
            THEN /\ loop' = [loop EXCEPT ![k] = Eof(l)]
                 /\ UNCHANGED <<hist, wire, events, tab>>
            ELSE IF r.kind = "timeout"
            THEN /\ loop' = [loop EXCEPT ![k] = Timeout(l)]
                 /\ hist' = [hist EXCEPT ![k].resumed =
                               @ \/ (l.data # <<>> /\ socket = s /\ sockState[s] = "open")]
                 /\ UNCHANGED <<wire, events, tab>>
            ELSE /\ wire' = [wire EXCEPT ![s] = Drop(@, r.n)]
                 /\ loop' = [loop EXCEPT ![k] = Chunk(l, l.data \o Take(wire[s], r.n))]
                 /\ hist' = [hist EXCEPT ![k].split = @ \/ (r.n < l.need - Len(l.data))]
                 /\ UNCHANGED <<events, tab>>
    /\ UNCHANGED <<socket, running, sockState, peer, nsock, cpc, call, dpc, left>>

\* l.141-151: one recv() returns inside _recv_exact
RecvReturn(k) ==
    /\ loop[k].pc = "recv"
    /\ LET l == loop[k]
           s == l.sock
       IN \E r \in RecvResults(s, l.need - Len(l.data)) :
            IF r.kind = "raise"
            THEN \* l.149-150: except Exception: return b""
                 /\ loop' = [loop EXCEPT ![k] = Break]
                 /\ hist' = [hist EXCEPT ![s].cause = TRUE,
                                         ![k].raisedRunning = @ \/ running]
                 /\ wire' = wire
            ELSE IF r.kind = "eof"
            THEN \* l.144-145: if not chunk: return b""
                 /\ loop' = [loop EXCEPT ![k] = Eof(l)]
                 /\ UNCHANGED <<hist, wire>>
            ELSE IF r.kind = "timeout"
            THEN \* l.147-148: except socket.timeout: continue
                 /\ loop' = [loop EXCEPT ![k] = Timeout(l)]
                 /\ hist' = [hist EXCEPT ![k].resumed =
                               @ \/ (l.data # <<>> /\ socket = s /\ sockState[s] = "open")]
                 /\ wire' = wire
            ELSE \* l.146: data += chunk, and l.141 again
                 /\ wire' = [wire EXCEPT ![s] = Drop(@, r.n)]
                 /\ loop' = [loop EXCEPT ![k] = Chunk(l, l.data \o Take(wire[s], r.n))]
                 /\ hist' = [hist EXCEPT ![k].split = @ \/ (r.n < l.need - Len(l.data))]
    /\ UNCHANGED <<socket, running, sockState, peer, nsock, cpc, call, dpc, events, tab, left>>

\* (mutant) handlers that deliver nothing once self.running is cleared
HandleIfRunning(k, msg_type, payload) ==
    IF ~running THEN UNCHANGED <<events, tab>>
    ELSE IF msg_type = FRAME /\ DecodesAsImage(payload)
    THEN Emit("frame_received", payload, k)
    ELSE IF msg_type = TELEMETRY /\ DecodesAsJson(payload)
    THEN Emit("telemetry_received", payload, k)
    ELSE UNCHANGED <<events, tab>>

\* l.153-168 _handle_frame, l.170-181 _handle_telemetry, l.119-120 anything else
Handle(k, msg_type, payload) ==
    IF msg_type = FRAME /\ DecodesAsImage(payload)
    THEN Emit("frame_received", payload, k)
    ELSE IF msg_type = TELEMETRY /\ DecodesAsJson(payload)
    THEN Emit("telemetry_received", payload, k)
    ELSE UNCHANGED <<events, tab>>

\* l.114-120: dispatch on the type, then l.100-102: the next turn of the loop
Dispatch(k) ==
    /\ loop[k].pc = "dispatch"
    /\ Handle(k, loop[k].msg_type, loop[k].data)
    /\ hist' = [hist EXCEPT ![k].got =
                  Append(@, [tag |-> loop[k].msg_type, payload |-> loop[k].data])]
    /\ loop' = [loop EXCEPT ![k] = NextHeader(loop[k])]
    /\ UNCHANGED <<socket, running, sockState, peer, wire, nsock, cpc, call, dpc, left>>

\* ------------------------------------------------------------- the peer
\* a socket the client still uses: self.socket, or the one a recv() is blocked on
InUse(s) == socket = s \/ \E k \in Socks : loop[k].sock = s

Menu ==
    CASE left.menu = "wire" -> WireMsgs
      [] left.menu = "tags" -> TagMsgs
      [] OTHER -> {}

PeerSend(s) ==
    /\ sockState[s] = "open"
    /\ peer[s] = "up"
    /\ InUse(s)
    /\ wire[s] = <<>>
    /\ left.msgs > 0
    /\ \E m \in Menu :
         /\ wire' = [wire EXCEPT ![s] = @ \o Encode(m)]
         /\ hist' = [hist EXCEPT ![s].sent = Append(@, m)]
    /\ left' = [left EXCEPT !.msgs = @ - 1]
    /\ UNCHANGED <<socket, running, sockState, peer, nsock, cpc, call, loop, dpc, events, tab>>

\* the peer writes only the first n bytes of a message, then closes its end
PeerSendPart(s) ==
    /\ sockState[s] = "open"
    /\ peer[s] = "up"
    /\ InUse(s)
    /\ wire[s] = <<>>
    /\ left.msgs > 0
    /\ \E m \in Menu : \E n \in 1..(Len(Encode(m)) - 1) :
         /\ wire' = [wire EXCEPT ![s] = Take(Encode(m), n)]
         /\ hist' = [hist EXCEPT ![s].partial = Take(Encode(m), n), ![s].cause = TRUE]
    /\ peer' = [peer EXCEPT ![s] = "closed"]
    /\ left' = [left EXCEPT !.msgs = @ - 1]
    /\ UNCHANGED <<socket, running, sockState, nsock, cpc, call, loop, dpc, events, tab>>

\* the peer writes the first n bytes of a message and pauses
PeerSendSlowly(s) ==
    /\ sockState[s] = "open"
    /\ peer[s] = "up"
    /\ InUse(s)
    /\ wire[s] = <<>>
    /\ left.msgs > 0
    /\ \E m \in Menu : \E n \in 1..(Len(Encode(m)) - 1) :
         /\ wire' = [wire EXCEPT ![s] = Take(Encode(m), n)]
         /\ hist' = [hist EXCEPT ![s].sent = Append(@, m),
                                 ![s].held = Drop(Encode(m), n)]
    /\ peer' = [peer EXCEPT ![s] = "writing"]
    /\ left' = [left EXCEPT !.msgs = @ - 1]
    /\ UNCHANGED <<socket, running, sockState, nsock, cpc, call, loop, dpc, events, tab>>

\* the peer writes the rest of the message (lost if the client has closed)
PeerFlush(s) ==
    /\ peer[s] = "writing"
    /\ wire' = [wire EXCEPT ![s] = IF sockState[s] = "open" THEN @ \o hist[s].held ELSE @]
    /\ hist' = [hist EXCEPT ![s].held = <<>>]
    /\ peer' = [peer EXCEPT ![s] = "up"]
    /\ UNCHANGED <<socket, running, sockState, nsock, cpc, call, loop, dpc, events, tab, left>>

\* the peer closes its end: recv() returns b"" once the bytes sent are read
PeerClose(s) ==
    /\ sockState[s] = "open"
    /\ peer[s] = "up"
    /\ InUse(s)
    /\ peer' = [peer EXCEPT ![s] = "closed"]
    /\ hist' = [hist EXCEPT ![s].cause = TRUE]
    /\ UNCHANGED <<socket, running, sockState, wire, nsock, cpc, call, loop, dpc,
                   events, tab, left>>

\* the connection breaks (RST): recv() raises ConnectionResetError
PeerReset(s) ==
    /\ sockState[s] = "open"
    /\ peer[s] = "up"
    /\ InUse(s)
    /\ peer' = [peer EXCEPT ![s] = "reset"]
    /\ wire' = [wire EXCEPT ![s] = <<>>]
    /\ UNCHANGED <<socket, running, sockState, nsock, cpc, call, loop, dpc,
                   events, tab, hist, left>>

\* a socket object nothing refers to any more is closed when the interpreter
\* reclaims it, which may be at once, later or never
Finalize(s) ==
    /\ sockState[s] \in {"created", "open"}
    /\ ~InUse(s)
    /\ sockState' = [sockState EXCEPT ![s] = "closed"]
    /\ wire' = [wire EXCEPT ![s] = <<>>]
    /\ UNCHANGED <<socket, running, peer, nsock, cpc, call, loop, dpc, events, tab, hist, left>>

\* ------------------------------------------------------------------ Next
\* the client's own steps, on the caller thread and on the receiver threads
Client ==
    \/ CallConnect
    \/ ConnectStep
    \/ ConnectStart
    \/ ConnectEmit
    \/ CallDisconnect
    \/ \E t \in Threads : DiscCheck(t)
    \/ \E t \in Threads : DiscClose(t)
    \/ \E t \in Threads : DiscClear(t)
    \/ \E t \in Threads : DiscEmit(t)
    \/ \E k \in Socks : LoopTop(k)
    \/ \E k \in Socks : RecvReturn(k)
    \/ \E k \in Socks : LoopFinally(k)

\* lifecycle: a peer that sends nothing and may close
Next ==
    \/ Client
    \/ \E s \in Socks : PeerClose(s)

Spec == Init /\ [][Next]_vars

\* lifecycle, with the interpreter reclaiming the sockets nothing refers to
NextGc ==
    \/ Next
    \/ \E s \in Socks : Finalize(s)

SpecGc == Init /\ [][NextGc]_vars

\* scheduling: a thread that can take a step of the client's code eventually
\* takes it (the caller inside a call, a receiver thread anywhere), and a blocked
\* recv() eventually returns; nothing obliges the caller to make another call or
\* the peer to do anything
Fairness ==
    /\ WF_vars(ConnectStep) /\ WF_vars(ConnectStart) /\ WF_vars(ConnectEmit)
    /\ \A t \in Threads :
         /\ WF_vars(DiscCheck(t)) /\ WF_vars(DiscClose(t))
         /\ WF_vars(DiscClear(t)) /\ WF_vars(DiscEmit(t))
    /\ \A k \in Socks :
         WF_vars(LoopTop(k)) /\ WF_vars(RecvReturn(k)) /\ WF_vars(LoopFinally(k))

FairSpec == Spec /\ Fairness

\* framing: one connection, a peer that sends messages, closes or resets
InitWire ==
    /\ InitClient
    /\ left = [calls |-> MaxCalls - 1, connects |-> 1,
               msgs |-> MaxWireMsgs, menu |-> "wire", chunked |-> TRUE]

NextWire ==
    \/ Client
    \/ \E k \in Socks : Dispatch(k)
    \/ \E s \in Socks : PeerSend(s)
    \/ \E s \in Socks : PeerSendPart(s)
    \/ \E s \in Socks : PeerClose(s)
    \/ \E s \in Socks : PeerReset(s)

SpecWire == InitWire /\ [][NextWire]_vars

\* tags: one connection, a peer that sends messages of every kind of tag
InitTags ==
    /\ InitClient
    /\ left = [calls |-> MaxCalls - 1, connects |-> 1,
               msgs |-> MaxWireMsgs, menu |-> "tags", chunked |-> FALSE]

SpecTags == InitTags /\ [][NextWire]_vars

\* pauses: one connection, a peer that may stop in the middle of a message for
\* longer than the read timeout
InitSlow ==
    /\ InitClient
    /\ left = [calls |-> MaxCalls - 1, connects |-> 1,
               msgs |-> MaxWireMsgs, menu |-> "wire", chunked |-> FALSE]

NextSlow ==
    \/ Client
    \/ \E k \in Socks : Dispatch(k)
    \/ \E s \in Socks : PeerSendSlowly(s)
    \/ \E s \in Socks : PeerFlush(s)
    \/ \E s \in Socks : PeerClose(s)

SpecSlow == InitSlow /\ [][NextSlow]_vars

\* commands: one connection, a caller that also sends, a peer that closes or resets
InitSend ==
    /\ InitClient
    /\ left = [calls |-> MaxCalls, connects |-> 1,
               msgs |-> 0, menu |-> "none", chunked |-> FALSE]

NextSend ==
    \/ Client
    \/ CallSend
    \/ SendStep
    \/ \E s \in Socks : PeerClose(s)
    \/ \E s \in Socks : PeerReset(s)

SpecSend == InitSend /\ [][NextSend]_vars

\* ---------------------------------------------------------- ConnectionTab
\* connection_tab.py l.184-218 _toggle_connection, the slot of the button:
\* socket_client.connect(host, port) if not self._connected, else
\* socket_client.disconnect()
ToggleConnection ==
    \/ ~tab.connected /\ CallConnect
    \/ tab.connected /\ CallDisconnect

\* the caller's event loop, between two calls, runs the slot for the oldest
\* queued connection_changed
Deliver ==
    /\ cpc = "idle"
    /\ tab.pending # <<>>
    /\ tab' = [on_connection_changed(Head(tab.pending)) EXCEPT !.pending = Tail(@)]
    /\ UNCHANGED <<socket, running, sockState, peer, wire, nsock, cpc, call, loop, dpc,
                   events, hist, left>>

\* the button: the client is driven by ConnectionTab only
NextTab ==
    \/ ToggleConnection
    \/ Deliver
    \/ ConnectStep
    \/ ConnectStart
    \/ ConnectEmit
    \/ \E t \in Threads : DiscCheck(t)
    \/ \E t \in Threads : DiscClose(t)
    \/ \E t \in Threads : DiscClear(t)
    \/ \E t \in Threads : DiscEmit(t)
    \/ \E k \in Socks : LoopTop(k)
    \/ \E k \in Socks : RecvReturn(k)
    \/ \E k \in Socks : LoopFinally(k)
    \/ \E s \in Socks : PeerClose(s)

SpecTab == Init /\ [][NextTab]_vars

\* ================================================================ claims
IsChange(i, value) ==
    /\ events[i].sig = "connection_changed"
    /\ events[i].arg = value

\* connection_changed(False) emitted since the last connection_changed(True)
FalsesSinceTrue ==
    Cardinality({i \in 1..Len(events) :
        /\ IsChange(i, FALSE)
        /\ \A j \in (i + 1)..Len(events) : ~IsChange(j, TRUE)})

SessionSeen == \E i \in 1..Len(events) : IsChange(i, TRUE)

\* signals of one kind a thread emitted after the first `from` signals
CountFrom(sig, by, from) ==
    Cardinality({i \in (from + 1)..Len(events) :
        events[i].sig = sig /\ events[i].by = by})

Active(k) == loop[k].pc \notin {"unstarted", "done"}

\* disconnect() calls of the caller that have returned (lifecycle specifications)
DisconnectsReturned ==
    (MaxCalls - left.calls) - nsock - (IF cpc = "disconnect" THEN 1 ELSE 0)

\* C1 as stated: once a session was up and the caller's disconnect() has returned,
\* subscribers have seen exactly one connection_changed(False) for the session,
\* whoever else ran the disconnect sequence, and is_connected() is false.
C1_ExactlyOneFalse ==
    (call.op = "disconnect" /\ call.ret = "returned" /\ SessionSeen)
        => (FalsesSinceTrue = 1 /\ ~is_connected)

\* C1 as amended: every execution of the disconnect sequence emits one
\* connection_changed(False): one per disconnect() call of the caller and one by
\* each receiver thread that has finished; after the caller's disconnect() has
\* returned, is_connected() is false.
C1_EachDisconnectEmits ==
    /\ Count("connection_changed", FALSE, Caller) = DisconnectsReturned
    /\ \A k \in Socks :
         Count("connection_changed", FALSE, k) = (IF loop[k].pc = "done" THEN 1 ELSE 0)
    /\ (call.op = "disconnect" /\ call.ret = "returned") => ~is_connected

\* one session, disconnect() called twice, and the receiver thread has exited too
C1_Witness ==
    /\ call.op = "disconnect" /\ call.ret = "returned"
    /\ Count("connection_changed", TRUE, Caller) = 1
    /\ Count("connection_changed", FALSE, Caller) = 2
    /\ \E k \in Socks : loop[k].pc = "done" /\ Count("connection_changed", FALSE, k) = 1

IsPrefix(a, b) == Len(a) <= Len(b) /\ a = SubSeq(b, 1, Len(a))

\* the receiver thread has left its while loop
Exited(k) == loop[k].pc \in {"finally", "disconnect", "done"}

\* the thread waits for a header and has read everything the peer sent
AtBoundary(k) ==
    /\ loop[k].pc = "recv" /\ loop[k].phase = "hdr" /\ loop[k].data = <<>>
    /\ loop[k].sock = k /\ sockState[k] = "open" /\ peer[k] # "reset"
    /\ wire[k] = <<>>

\* C2 as stated: every message [tag][L as big-endian u32][payload], L = 0 included,
\* reaches the dispatch with the tag and payload the peer sent, in order, and does
\* not end the session: the thread leaves its loop only after the caller's
\* disconnect(), the peer's close or a failed read.
C2_FramingRoundTrip ==
    \A k \in Socks :
        /\ IsPrefix(hist[k].got, hist[k].sent)
        /\ AtBoundary(k) => hist[k].got = hist[k].sent
        /\ Exited(k) => hist[k].cause

\* C3 as stated: when a recv() of a receiver thread raised (not a timeout, not the
\* peer closing) while self.running was set, the thread has emitted exactly one
\* error_occurred by the time it leaves its loop for the disconnect sequence.
C3_ReadErrorReported ==
    \A k \in Socks :
        (hist[k].raisedRunning /\ Exited(k)) => CountSig("error_occurred", k) = 1

\* the connection of the latest connect() that succeeded (None before the first)
LastSession ==
    IF \E s \in Socks : hist[s].established
    THEN CHOOSE s \in Socks :
            /\ hist[s].established
            /\ \A u \in Socks : hist[u].established => u <= s
    ELSE None

\* C4 as stated, for a client that is reused properly (connect() is called only
\* while is_connected() is false): after the connect that succeeded last, and with
\* no call made since, the client is Connected until the caller calls
\* disconnect(), the peer closes that connection or a read on it fails, however
\* soon after a disconnect() the connect was made.
C4_StaysConnected ==
    ( /\ LastSession # None
      /\ ~hist[LastSession].cause
      /\ call.op = "connect" /\ call.sock = LastSession /\ ~call.wasConn )
        => is_connected

\* no thread is inside a call: the caller is between calls and no receiver thread
\* is inside its disconnect sequence
Quiet == cpc = "idle" /\ \A k \in Socks : loop[k].pc \notin {"finally", "disconnect"}

\* the caller has called connect() only while is_connected() was false
ProperReuse == \A s \in Socks : ~hist[s].wasConn

\* a connected socket that a thread of the client can still reach; what becomes of
\* a socket nothing refers to is the interpreter's business
Live(s) == sockState[s] = "open" /\ InUse(s)

\* C5 as stated, for a client that is reused properly: at any time at most one
\* receiver thread is alive and at most one connection is live.
C5_OneLoopOneConnection ==
    ProperReuse =>
        /\ Cardinality({k \in Socks : Active(k)}) <= 1
        /\ Cardinality({s \in Socks : Live(s)}) <= 1

\* C6 as stated: between calls, whatever connect() calls were made, the only
\* live socket is the one self.socket refers to.
C6_NoLeakedSocket ==
    cpc = "idle" => \A s \in Socks : Live(s) => socket = s

\* C7 as stated: when connect() returns False, the socket it created is closed,
\* the client holds no socket handle and self.running is false.
C7_FailedConnectDestroys ==
    (call.op = "connect" /\ call.ret = "false")
        => (call.closed /\ call.handle = None /\ ~call.run)

\* C8 as stated, taken between calls: self.running is true exactly when a
\* receiver thread is alive and self.socket is not None.
C8_RunningIffLoopAndSocket ==
    Quiet => (running <=> ((\E k \in Socks : Active(k)) /\ socket # None))

\* C9 as stated: when connect() returns False, is_connected() is false, the call
\* started no receiver thread, emitted no connection_changed and emitted exactly
\* one error_occurred.
C9_FailedConnectLeavesDisconnected ==
    (call.op = "connect" /\ call.ret = "false")
        => /\ ~call.conn
           /\ loop[call.sock].pc = "unstarted"
           /\ CountFrom("connection_changed", Caller, call.from) = 0
           /\ CountFrom("error_occurred", Caller, call.from) = 1

\* receiver threads started for the sockets created since connect() was entered
StartedByCall == {k \in Socks : k >= call.sock /\ loop[k].pc # "unstarted"}

\* C10 as stated: when connect() returns True, is_connected() is true, the call
\* started exactly one receiver thread and emitted connection_changed(True)
\* exactly once; and a connect() whose socket connected does return True.
C10_SuccessMakesConnected ==
    /\ (call.op = "connect" /\ call.ret = "true")
          => /\ call.conn
             /\ Cardinality(StartedByCall) = 1
             /\ CountFrom("connection_changed", Caller, call.from) = 1
             /\ Count("connection_changed", FALSE, Caller) = DisconnectsReturned
    /\ (call.op = "connect" /\ call.ret = "false") => ~hist[call.sock].established

\* C10 as amended: when connect() returns True, the call has set self.running,
\* started exactly one receiver thread and emitted connection_changed(True)
\* exactly once (and nothing else); is_connected() is true at the return unless a
\* receiver thread has executed self.running = False or self.socket = None since
\* connect() was entered.  A connect() whose socket connected returns True.
C10_SuccessStartsSession ==
    /\ (call.op = "connect" /\ call.ret = "true")
          => /\ call.conn \/ call.hit
             /\ hist[call.sock].established
             /\ Cardinality(StartedByCall) = 1
             /\ CountFrom("connection_changed", Caller, call.from) = 1
             /\ CountFrom("error_occurred", Caller, call.from) = 0
             /\ Count("connection_changed", FALSE, Caller) = DisconnectsReturned
    /\ (call.op = "connect" /\ call.ret = "false") => ~hist[call.sock].established

\* a reconnect made while is_connected() was false has returned True, connected
\* and its receiver thread alive
C10_Witness ==
    /\ call.op = "connect" /\ call.ret = "true"
    /\ call.conn /\ ~call.hit /\ ~call.wasConn
    /\ call.sock > 1
    /\ Active(call.sock)
    /\ Count("connection_changed", TRUE, Caller) = 2

\* signals of one kind emitted so far, by any thread
Total(sig) == Cardinality({i \in 1..Len(events) : events[i].sig = sig})

TotalChanges(value) == Cardinality({i \in 1..Len(events) : IsChange(i, value)})

\* disconnect() calls the caller has begun (framing specification)
WireDisconnects == (MaxCalls - 1 - left.calls) - nsock

\* the peer closed connection k after whole messages only, every one of them was
\* dispatched, and the thread has then exited without the caller's disconnect()
ExitedOnBoundaryEof(k) ==
    /\ peer[k] = "closed"
    /\ loop[k].pc = "done"
    /\ hist[k].got = hist[k].sent
    /\ WireDisconnects = 0

\* C11: when the peer closes at a message boundary and the caller does not call
\* disconnect(), the loop exits with no error_occurred emitted and exactly one
\* connection_changed(False) emitted.
C11_GracefulEof ==
    \A k \in Socks :
        ExitedOnBoundaryEof(k)
            => /\ Total("error_occurred") = 0
               /\ TotalChanges(FALSE) = 1
               /\ Count("connection_changed", FALSE, k) = 1

\* the peer sent a message, it was dispatched, the peer closed, the thread exited
C11_Witness ==
    \E k \in Socks : ExitedOnBoundaryEof(k) /\ Len(hist[k].got) >= 1

\* what the handlers emit for a sequence of dispatched messages, in order
RECURSIVE Delivered(_)
Delivered(msgs) ==
    IF msgs = <<>> THEN <<>>
    ELSE LET m == msgs[1]
         IN (IF m.tag = FRAME /\ DecodesAsImage(m.payload)
             THEN <<[sig |-> "frame_received", arg |-> m.payload]>>
             ELSE IF m.tag = TELEMETRY /\ DecodesAsJson(m.payload)
             THEN <<[sig |-> "telemetry_received", arg |-> m.payload]>>
             ELSE <<>>) \o Delivered(Tail(msgs))

\* the frame_received and telemetry_received signals thread k has emitted, in order
RECURSIVE DataSignals(_, _)
DataSignals(k, n) ==
    IF n = 0 THEN <<>>
    ELSE DataSignals(k, n - 1) \o
         (IF events[n].by = k /\ events[n].sig \in {"frame_received", "telemetry_received"}
          THEN <<[sig |-> events[n].sig, arg |-> events[n].arg]>>
          ELSE <<>>)

\* the thread has run the whole disconnect sequence
TornDown(k) ==
    /\ Count("connection_changed", FALSE, k) = 1
    /\ sockState[k] = "closed"

\* C12: when the peer closes after part of a header or part of a payload, a
\* handler only ever gets a payload of the length its header declared, nothing of
\* the partial message is dispatched or emitted, no error_occurred is emitted,
\* and the thread exits through the disconnect sequence.
C12_PartialMessageDropped ==
    \A k \in Socks :
        /\ loop[k].pc = "dispatch" => Len(loop[k].data) = loop[k].need
        /\ hist[k].partial # <<>>
             => /\ IsPrefix(hist[k].got, hist[k].sent)
                /\ DataSignals(k, Len(events)) = Delivered(hist[k].got)
                /\ CountSig("error_occurred", k) = 0
                /\ loop[k].pc = "done" => TornDown(k)

\* the peer sent a header and part of the payload and closed; the thread read the
\* partial message and exited, the caller having made no disconnect() call
C12_Witness ==
    \E k \in Socks :
        /\ Len(hist[k].partial) > HeaderLen
        /\ hist[k].got = hist[k].sent
        /\ WireDisconnects = 0
        /\ loop[k].pc = "done"

\* C13 as stated, for a client that is reused properly: at the step where a
\* receiver thread finishes its exit path, the socket of its connection is closed,
\* self.running is false, self.socket is None and the thread has emitted
\* connection_changed(False).
C13_ExitRunsDisconnect ==
    [][\A k \in Socks :
          (ProperReuse /\ loop[k].pc # "done" /\ loop'[k].pc = "done")
              => /\ sockState'[k] = "closed"
                 /\ ~running'
                 /\ socket' = None
                 /\ Count("connection_changed", FALSE, k)' = 1]_vars

\* the caller's send_command() begins at this step
SendCalled == cpc = "idle" /\ call'.op = "send" /\ left'.calls < left.calls

\* the last signal emitted is this error_occurred of the caller
LastErrorIs(text) ==
    /\ events # <<>>
    /\ events[Len(events)] = [sig |-> "error_occurred", arg |-> text, by |-> Caller]

\* C14: send_command() called while is_connected() is false emits exactly one
\* error_occurred("Not connected") and returns, having written to no socket and
\* changed nothing of the client's state.
C14_SendWhileDisconnected ==
    [][(SendCalled /\ ~is_connected)
          => /\ events' = Append(events, [sig |-> "error_occurred",
                                           arg |-> "Not connected", by |-> Caller])
             /\ cpc' = "idle" /\ call'.ret = "returned" /\ call'.writes = 0
             /\ \A s \in Socks : hist'[s].out = hist[s].out
             /\ UNCHANGED <<socket, running, sockState, peer, wire, nsock, loop, dpc>>]_vars

\* send_command() was called after a session had ended, and has returned
C14_Witness ==
    /\ call.op = "send" /\ call.ret = "returned" /\ ~call.wasConn
    /\ LastErrorIs("Not connected")
    /\ \E s \in Socks : hist[s].established

\* the write of the send_command() in progress fails at this step: the call
\* returns and no socket has got the whole command
SendFailed ==
    /\ cpc = "s_send" /\ cpc' = "idle"
    /\ \A s \in Socks : hist'[s].out # Append(hist[s].out, CommandBytes(call.cmd))

\* C15: when the write inside send_command() fails, the call emits exactly one
\* error_occurred and no connection_changed, makes no second write, and leaves
\* self.running, self.socket and is_connected() as they were.
C15_SendFailureKeepsState ==
    [][SendFailed
          => /\ events' = Append(events, [sig |-> "error_occurred",
                                           arg |-> "Send failed", by |-> Caller])
             /\ CountFrom("error_occurred", Caller, call.from)' = 1
             /\ CountFrom("connection_changed", Caller, call.from)' = 0
             /\ call'.writes <= 1
             /\ UNCHANGED <<socket, running, sockState>>
             /\ is_connected' = is_connected]_vars

\* a sendall() on the connected socket failed, and the client is still connected
C15_Witness ==
    /\ call.op = "send" /\ call.ret = "returned" /\ call.wasConn
    /\ call.writes = 1
    /\ LastErrorIs("Send failed")
    /\ is_connected /\ sockState[socket] = "open"

\* the signals the handlers owe for the messages the peer sent on k
Owed(k) == Delivered(hist[k].sent)

\* C16 as stated: a message whose tag is neither FRAME nor TELEMETRY is read whole
\* and skipped: the thread emits no signal for it and no error_occurred, the
\* messages after it are dispatched and delivered as sent, and the thread leaves
\* its loop only after the caller's disconnect(), the peer's close or a failed read.
C16_UnknownTagSkipped ==
    \A k \in Socks :
        /\ IsPrefix(hist[k].got, hist[k].sent)
        /\ IsPrefix(DataSignals(k, Len(events)), Owed(k))
        /\ AtBoundary(k) => /\ hist[k].got = hist[k].sent
                             /\ DataSignals(k, Len(events)) = Owed(k)
        /\ CountSig("error_occurred", k) = 0
        /\ Exited(k) => hist[k].cause

\* C17 as stated: a FRAME or TELEMETRY message whose payload does not decode is
\* dropped without a signal and without ending the loop: the thread emits exactly
\* the signals owed for the messages that do decode, in order, all of them once it
\* has read everything sent, and it leaves its loop only after the caller's
\* disconnect(), the peer's close or a failed read.
C17_DecodeFailureIsolated ==
    \A k \in Socks :
        /\ IsPrefix(DataSignals(k, Len(events)), Owed(k))
        /\ AtBoundary(k) => DataSignals(k, Len(events)) = Owed(k)
        /\ Exited(k) => hist[k].cause

\* every byte the peer has written on connection k, in order
RECURSIVE Flatten(_)
Flatten(msgs) == IF msgs = <<>> THEN <<>> ELSE Encode(msgs[1]) \o Flatten(Tail(msgs))

SentBytes(k) == Flatten(hist[k].sent) \o hist[k].partial

\* what the loop dispatches from a byte stream when every read is served by one
\* recv(): whole messages in order, up to the first empty or incomplete one
RECURSIVE OneShot(_)
OneShot(bytes) ==
    IF Len(bytes) < HeaderLen THEN <<>>
    ELSE LET h == Unpack(Take(bytes, HeaderLen))
             end == HeaderLen + h.payload_length
         IN IF h.payload_length = 0 \/ Len(bytes) < end THEN <<>>
            ELSE <<[tag |-> h.msg_type, payload |-> SubSeq(bytes, HeaderLen + 1, end)]>>
                     \o OneShot(Drop(bytes, end))

\* the thread has read all the peer wrote: it waits at a boundary, or it has left
\* its loop on the peer's close with no disconnect() of the caller
ReadAll(k) ==
    \/ AtBoundary(k)
    \/ Exited(k) /\ peer[k] = "closed" /\ WireDisconnects = 0

\* C18: however recv() splits the stream into chunks, down to one byte each, the
\* loop dispatches what it dispatches when every read is served by one recv(),
\* and a handler gets exactly the payload bytes the header declared.
C18_ChunkingInvisible ==
    \A k \in Socks :
        LET whole == OneShot(SentBytes(k))
            signals == DataSignals(k, Len(events))
        IN /\ IsPrefix(hist[k].got, whole)
           /\ ReadAll(k) => hist[k].got = whole
           /\ IsPrefix(signals, Delivered(whole))
           /\ ReadAll(k) => signals = Delivered(whole)

\* two messages were dispatched as sent although recv() returned short reads
C18_Witness ==
    \E k \in Socks :
        /\ hist[k].split
        /\ Len(hist[k].got) = 2
        /\ hist[k].got = hist[k].sent
        /\ Len(DataSignals(k, Len(events))) = 2

\* at this step a recv() of thread k, on its open connection, times out with a
\* part of the read accumulated
TimesOutMidRead(k) == ~hist[k].resumed /\ hist'[k].resumed

\* with pauses of the peer, the thread still dispatches the stream as sent
ReassembledAcrossTimeouts(k) ==
    /\ IsPrefix(hist[k].got, OneShot(SentBytes(k)))
    /\ AtBoundary(k) => hist[k].got = OneShot(SentBytes(k))
    /\ CountSig("error_occurred", k) = 0

\* C19: a read timeout inside an exact-byte read is retried: at the timeout the
\* thread keeps the bytes accumulated and goes on with the same read, nothing is
\* emitted, self.running, self.socket and the socket are untouched; and the
\* messages are dispatched as sent whatever pauses the peer makes.
C19_TimeoutRetried ==
    /\ [](\A k \in Socks : ReassembledAcrossTimeouts(k))
    /\ [][\A k \in Socks :
            TimesOutMidRead(k)
                => /\ loop'[k] = loop[k]
                   /\ loop'[k].pc = "recv"
                   /\ events' = events
                   /\ UNCHANGED <<running, socket, sockState>>]_vars

\* a read timed out half way through a message, and the message was then
\* completed, dispatched and delivered with the connection still up
C19_Witness ==
    \E k \in Socks :
        /\ hist[k].resumed
        /\ Len(hist[k].got) >= 1
        /\ hist[k].got = hist[k].sent
        /\ Len(DataSignals(k, Len(events))) >= 1
        /\ is_connected /\ AtBoundary(k)

\* the caller's disconnect(), called with is_connected() false and no receiver
\* thread alive, takes a step
DisconnectedStep ==
    /\ cpc = "disconnect" /\ ~call.wasConn
    /\ \A k \in Socks : ~Active(k)
    /\ dpc'[Caller] # dpc[Caller]

\* C20 as stated: disconnect() called while the client is Disconnected touches no
\* socket and changes nothing (self.running was cleared on entry), and on return
\* it has emitted one connection_changed(False) and no error_occurred.
C20_DisconnectWhenDisconnected ==
    [][DisconnectedStep
          => /\ UNCHANGED <<socket, running, sockState, wire, nsock, loop>>
             /\ cpc' = "idle"
                  => /\ CountFrom("connection_changed", Caller, call.from)' = 1
                     /\ CountFrom("error_occurred", Caller, call.from)' = 0
                     /\ events' = Append(events, [sig |-> "connection_changed",
                                                   arg |-> FALSE, by |-> Caller])]_vars

\* the messages thread k has read whole: those dispatched and the one in hand
Received(k) ==
    hist[k].got \o (IF loop[k].pc = "dispatch"
                    THEN <<[tag |-> loop[k].msg_type, payload |-> loop[k].data]>>
                    ELSE <<>>)

\* C21: within one connection the frame_received and telemetry_received signals
\* come in the order of their messages on the wire, and every message that was
\* read whole and decodes has its signal once it was dispatched; no message read
\* whole is left behind when the thread leaves its loop.
C21_InOrderDelivery ==
    \A k \in Socks :
        LET signals == DataSignals(k, Len(events))
        IN /\ IsPrefix(Received(k), hist[k].sent)
           /\ signals = Delivered(hist[k].got)
           /\ IsPrefix(signals, Owed(k))
           /\ Exited(k) => signals = Delivered(Received(k))

\* a frame and then a telemetry message were delivered, in that order, the second
\* one dispatched after the caller's disconnect() had begun
C21_Witness ==
    \E k \in Socks :
        /\ Len(hist[k].got) = 2
        /\ DataSignals(k, Len(events)) =
             <<[sig |-> "frame_received", arg |-> <<255, 216>>],
               [sig |-> "telemetry_received", arg |-> <<123, 125>>]>>
        /\ \E i \in 1..Len(events) :
             /\ events[i].sig = "telemetry_received"
             /\ i > 1 /\ call.op = "disconnect"
             /\ call.from < i

\* the caller has called disconnect() on a connected client while thread k runs
DisconnectCalledOn(k) ==
    /\ call.op = "disconnect" /\ call.wasConn
    /\ Active(k)

\* C22 as stated, for a client that is reused properly: once the caller has
\* called disconnect() on a connected client, every receiver thread then running
\* eventually exits, with fair scheduling of the threads and read timeouts that
\* fire.
C22_LoopExitsAfterDisconnect ==
    \A k \in Socks :
        (ProperReuse /\ DisconnectCalledOn(k)) ~> (~Active(k) \/ ~ProperReuse)

\* the place of the connection_changed(False) a thread emitted last (0: none)
LastFalseBy(t) ==
    LET at == {i \in 1..Len(events) : IsChange(i, FALSE) /\ events[i].by = t}
    IN IF at = {} THEN 0 ELSE CHOOSE i \in at : \A j \in at : j <= i

\* the caller's disconnect() has returned and receiver thread k has finished
BothDisconnected(k) ==
    /\ call.op = "disconnect" /\ call.ret = "returned"
    /\ loop[k].pc = "done"

\* C23: the caller and a receiver thread may run the disconnect sequence at the
\* same time: no step of either raises out of disconnect(), and once both have
\* finished self.running is false, self.socket is None and the socket is closed.
C23_ConcurrentDisconnect ==
    /\ \A t \in Threads : dpc[t] # "raised"
    /\ \A k \in Socks :
         BothDisconnected(k)
             => ~running /\ socket = None /\ sockState[k] = "closed"

\* both have finished, the thread having emitted its connection_changed(False)
\* after the caller entered disconnect() and before the caller emitted its own
C23_Witness ==
    \E k \in Socks :
        /\ BothDisconnected(k)
        /\ call.from < LastFalseBy(k)
        /\ LastFalseBy(k) < LastFalseBy(Caller)
        /\ call.wasConn

\* the send_command() of the caller has come back without an error_occurred
SentClean ==
    /\ call.op = "send" /\ call.ret = "returned"
    /\ CountFrom("error_occurred", Caller, call.from) = 0

\* C24: send_command() never raises to its caller: a call that has come back
\* either wrote its command with one sendall() or emitted exactly one
\* error_occurred, also when a receiver thread cleared self.socket between the
\* is_connected() test and the write.
C24_SendNeverRaises ==
    /\ call.ret # "raised"
    /\ (call.op = "send" /\ call.ret = "returned")
          => \/ CountFrom("error_occurred", Caller, call.from) = 1
             \/ SentClean /\ call.writes = 1

\* send_command() passed its is_connected() test, a receiver thread then cleared
\* self.socket, and the call came back with "Send failed" and no write
C24_Witness ==
    /\ call.op = "send" /\ call.ret = "returned" /\ call.wasConn
    /\ Dumps(call.cmd) # <<>>
    /\ call.writes = 0
    /\ LastErrorIs("Send failed")
    /\ socket = None

\* the UTF-8 JSON text of the commands the caller passes
JsonText(c) ==
    IF c = "empty" THEN <<123, 125>>                        \* {}
    ELSE <<123, 34, 97, 34, 58, 32, 49, 125>>               \* {"a": 1}

\* C25: a command sent while connected reaches the socket as one write of: the
\* byte 0xFF, the length of its UTF-8 JSON text as 4 bytes big-endian, that text.
C25_CommandWireFormat ==
    SentClean
        => \E s \in Socks :
              /\ hist[s].out # <<>>
              /\ hist[s].out[Len(hist[s].out)] =
                    <<255, 0, 0, 0, Len(JsonText(call.cmd))>> \o JsonText(call.cmd)

\* {"a": 1} was sent: FF 00 00 00 08 and the eight bytes of the text
C25_Witness ==
    /\ SentClean /\ call.cmd = "a1"
    /\ \E s \in Socks :
         hist[s].out = << <<255, 0, 0, 0, 8, 123, 34, 97, 34, 58, 32, 49, 125>> >>

\* C26 as stated, for a client that is reused properly: a receiver thread only
\* ever calls recv() on the socket of the connect() that started it.
C26_LoopReadsOwnSocket ==
    ProperReuse => \A k \in Socks : loop[k].sock \in {None, k}

\* the value of the connection_changed emitted last (FALSE when there is none)
LastChange ==
    LET at == {i \in 1..Len(events) : events[i].sig = "connection_changed"}
    IN IF at = {} THEN FALSE ELSE events[CHOOSE i \in at : \A j \in at : j <= i].arg

\* C27 as stated, for the first connection of a client: the receiver thread's
\* connection_changed(False) comes after the connection_changed(True) of the
\* connect() that started it, so that with the session over and no call in
\* progress the value emitted last is is_connected().
C27_TrueBeforeFalse ==
    /\ \A k \in Socks :
         (nsock = 1 /\ LastFalseBy(k) > 0)
             => \E i \in 1..(LastFalseBy(k) - 1) : IsChange(i, TRUE)
    /\ (nsock = 1 /\ cpc = "idle" /\ \A k \in Socks : ~Active(k))
          => LastChange = is_connected

\* C28 as stated: once connection_changed(False) was emitted in a session (after
\* its connection_changed(True) and before the next one), no frame_received and no
\* telemetry_received follows in that session, wherever the receiver thread stood
\* when the caller's disconnect() ran.
C28_NoDataAfterFalse ==
    \A i \in 1..Len(events) :
        (IsChange(i, FALSE) /\ \E h \in 1..(i - 1) : IsChange(h, TRUE)) =>
            \A j \in (i + 1)..Len(events) :
                \/ events[j].sig \notin {"frame_received", "telemetry_received"}
                \/ \E h \in (i + 1)..(j - 1) : IsChange(h, TRUE)

\* C29: a disconnect() the caller makes on a connected client causes no
\* error_occurred, although it closes the socket under the receiver thread's
\* blocking read: no receiver thread ever emits error_occurred, nothing emitted
\* since the call began is an error_occurred, and the thread that ends this way
\* has emitted one connection_changed(False).
C29_SilentDisconnect ==
    /\ \A k \in Socks : CountSig("error_occurred", k) = 0
    /\ (call.op = "disconnect" /\ call.wasConn)
          => /\ \A i \in (call.from + 1)..Len(events) : events[i].sig # "error_occurred"
             /\ \A k \in Socks :
                  loop[k].pc = "done" => Count("connection_changed", FALSE, k) = 1

\* the caller's disconnect() of a connection the peer left open has returned; the
\* thread had read part of a message when its socket was closed, so it left
\* _recv_exact by the exception of recv(), and it has finished
C29_Witness ==
    \E k \in Socks :
        /\ call.op = "disconnect" /\ call.wasConn /\ call.ret = "returned"
        /\ peer[k] = "up"
        /\ Len(hist[k].sent) = 1 /\ hist[k].sent[1].payload # <<>>
        /\ hist[k].split /\ hist[k].got = <<>>
        /\ ~hist[k].raisedRunning
        /\ loop[k].pc = "done"
        /\ Total("error_occurred") = 0
        /\ Count("connection_changed", FALSE, k) = 1

\* no thread is inside disconnect(): between its self.running = False and its emit
\* the client has changed and the notification does not exist yet
NoDisconnectRunning ==
    /\ \A t \in Threads : dpc[t] = "out"
    /\ \A k \in Socks : loop[k].pc \notin {"finally", "disconnect"}

\* C30 as stated: with no notification waiting to be delivered, no call of the
\* client in progress (and no thread inside disconnect()), ConnectionTab's
\* _connected equals is_connected(); and the button never calls connect() on a
\* client that is connected.
C30_TabTracksClient ==
    /\ (cpc = "idle" /\ tab.pending = <<>> /\ NoDisconnectRunning)
          => tab.connected = is_connected
    /\ (call.op = "connect") => ~call.wasConn

====
